---- MODULE Spec2Model ----
(***************************************************************************)
(* A model of robotremoteserver.py: the XML-RPC remote server              *)
(* (RobotRemoteServer), the keyword catalog (RemoteLibrary), the keyword   *)
(* invoker (KeywordRunner) and the result encoder (KeywordResult).         *)
(*                                                                         *)
(* Python values are records V(t, cls, s, n, items):                       *)
(*   t     the type: "none", "bool", "int", "float", "text" (unicode),     *)
(*         "bytes", "obj" (a non-iterable object), "list", "dict",         *)
(*         "binary" (xmlrpc Binary), "exc" (a raised exception)            *)
(*   cls   the class name of an exception                                  *)
(*   s     the characters of a text, bytes or Binary value, the text an    *)
(*         object's __str__ gives, or the message of an exception          *)
(*   n     the number of a bool, int or float                              *)
(*   items the items of a list, or the <<key, value>> pairs of a dict      *)
(* A character is a token: "a" (printable ASCII), "LF" (newline), "NUL"    *)
(* (a control character), "E9" (a character above 0x7F); longer tokens     *)
(* stand for fixed pieces of printable ASCII text.                         *)
(***************************************************************************)
EXTENDS Integers, Sequences, FiniteSets, TLC

VARIABLES
    PY3,            \* sys.version_info >= (3,)
    allow_stop,     \* RobotRemoteServer._allow_stop
    shutdown,       \* RobotRemoteServer._shutdown
    stop_registered,\* RemoteLibrary._stop_remote_server is set
    pc,             \* position of serve_forever: "loop", "wait", "exited"
    sys_stdout,     \* the object sys.stdout names
    sys_stderr,     \* the object sys.stderr names
    lib_kind,       \* how the hosted library enumerates its keywords
    kwlist,         \* the list object the hosted library keeps its names in
    value,          \* the value handed to set_return in the encoder runs
    reply           \* what the last handled request gave back

vars == <<PY3, allow_stop, shutdown, stop_registered, pc, sys_stdout,
          sys_stderr, lib_kind, kwlist, value, reply>>

------------------------------------------------------------------------------
(* Bounds and input alphabets *)

MaxStrLen == 2
MaxDepth == 2
MaxNames == 4

Chars == {"a", "LF", "NUL", "E9"}

\* the pattern with its first range starting at \x01
BINARY_from_one == {}

\* BINARY = re.compile('[\x00-\x08\x0B\x0C\x0E-\x1F]'): tab, LF and CR are not in it
BINARY == {"NUL"}

\* NON_ASCII = re.compile('[\x80-\xff]')
NON_ASCII == {"E9"}

Search(pattern, s) == \E i \in 1..Len(s) : s[i] \in pattern

Strings(n) == UNION {[1..k -> Chars] : k \in 0..n}

------------------------------------------------------------------------------
(* Python values *)

V(t, cls, s, n, items) == [t |-> t, cls |-> cls, s |-> s, n |-> n, items |-> items]

PyNone == V("none", "", <<>>, 0, <<>>)
PyBool(b) == V("bool", "", <<>>, IF b THEN 1 ELSE 0, <<>>)
PyInt(n) == V("int", "", <<>>, n, <<>>)
PyFloat(n) == V("float", "", <<>>, n, <<>>)
PyText(s) == V("text", "", s, 0, <<>>)
PyBytes(s) == V("bytes", "", s, 0, <<>>)
PyObj(s) == V("obj", "", s, 0, <<>>)
PyList(items) == V("list", "", <<>>, 0, items)
PyDict(pairs) == V("dict", "", <<>>, 0, pairs)
Exc(cls, msg) == V("exc", cls, msg, 0, <<>>)

\* xmlrpc Binary(data)
Binary(data) == V("binary", "", data, 0, <<>>)

IsExc(v) == v.t = "exc"

RECURSIVE Join(_, _)
Join(seqs, sep) ==
    IF seqs = <<>> THEN <<>>
    ELSE IF Len(seqs) = 1 THEN seqs[1]
    ELSE seqs[1] \o sep \o Join(Tail(seqs), sep)

\* repr() of a character inside a string literal: a control character is
\* escaped; Python 2 escapes a character above 0x7F as well
Escape(c) ==
    IF c = "NUL" THEN "\\x00"
    ELSE IF c = "LF" THEN "\\n"
    ELSE IF c = "E9" /\ ~PY3 THEN "\\xe9"
    ELSE c

\* repr(value), which unicode(list) and '%r' use
RECURSIVE Repr(_)
Repr(v) ==
    CASE v.t = "none" -> <<"None">>
      [] v.t = "bool" -> <<IF v.n = 1 THEN "True" ELSE "False">>
      [] v.t = "int" -> <<ToString(v.n)>>
      [] v.t = "float" -> <<ToString(v.n), ".5">>
      [] v.t = "text" ->
            (IF PY3 THEN <<>> ELSE <<"u">>) \o <<"'">>
                \o [i \in 1..Len(v.s) |-> Escape(v.s[i])] \o <<"'">>
      [] v.t = "bytes" ->
            (IF PY3 THEN <<"b">> ELSE <<>>) \o <<"'">>
                \o [i \in 1..Len(v.s) |->
                       IF v.s[i] = "E9" THEN "\\xe9" ELSE Escape(v.s[i])]
                \o <<"'">>
      [] v.t = "obj" -> <<"<object>">>
      [] v.t = "list" ->
            <<"[">> \o Join([i \in 1..Len(v.items) |-> Repr(v.items[i])], <<", ">>)
                \o <<"]">>
      [] v.t = "dict" ->
            <<"{">> \o Join([i \in 1..Len(v.items) |->
                               Repr(v.items[i][1]) \o <<": ">> \o Repr(v.items[i][2])],
                            <<", ">>)
                \o <<"}">>
      [] OTHER -> <<"<Binary>">>

\* unicode(item) of an item that is no string
Unicode(v) ==
    CASE v.t = "none" -> <<"None">>
      [] v.t = "obj" -> v.s
      [] OTHER -> Repr(v)

------------------------------------------------------------------------------
(* KeywordResult: the result encoder *)

_contains_binary(result) ==
    IF PY3 THEN result.t = "bytes" \/ Search(BINARY, result.s)
    ELSE (result.t = "bytes" /\ Search(NON_ASCII, result.s))
           \/ Search(BINARY, result.s)

\* the Binary wrapping result, or the ValueError raised when a text cannot be
\* encoded as ASCII
_handle_binary_result(result) ==
    IF ~_contains_binary(result) THEN result
    ELSE IF result.t # "bytes" /\ Search(NON_ASCII, result.s)
    THEN Exc("ValueError",
             <<"Cannot represent ">> \o Repr(result) \o <<" as binary.">>)
    ELSE Binary(result.s)

\* _str without the unicode(item) of an item that is no string
_str_raw(item) ==
    IF item.t = "none" THEN PyText(<<>>)
    ELSE IF item.t \in {"text", "bytes"} THEN _handle_binary_result(item)
    ELSE item

\* _str(item, handle_binary=True)
_str(item) ==
    IF item.t = "none" THEN PyText(<<>>)
    ELSE LET text == IF item.t \in {"text", "bytes"} THEN item
                     ELSE PyText(Unicode(item))
         IN  _handle_binary_result(text)

\* hash(key) when a dict is built: Binary defines __eq__ (Python 2: __cmp__)
\* and no __hash__, so it cannot be a key
Unhashable ==
    Exc("TypeError",
        IF PY3 THEN <<"unhashable type: 'Binary'">> ELSE <<"unhashable instance">>)

\* dict(pairs): a later pair with an equal key replaces the value of the earlier
RECURSIVE DictOf(_, _)
DictOf(pairs, acc) ==
    IF pairs = <<>> THEN PyDict(acc)
    ELSE LET p == Head(pairs)
             at == {i \in 1..Len(acc) : acc[i][1] = p[1]}
         IN  IF at = {} THEN DictOf(Tail(pairs), Append(acc, p))
             ELSE DictOf(Tail(pairs),
                         [i \in 1..Len(acc) |-> IF i \in at THEN p ELSE acc[i]])

\* the first exception in a sequence of results, or PyNone
RECURSIVE FirstExc(_)
FirstExc(results) ==
    IF results = <<>> THEN PyNone
    ELSE IF IsExc(Head(results)) THEN Head(results)
    ELSE FirstExc(Tail(results))

RECURSIVE _handle_return_value(_)
_handle_return_value(ret) ==
    IF ret.t \in {"text", "bytes"} THEN _handle_binary_result(ret)
    ELSE IF ret.t \in {"bool", "int", "float"} THEN ret
    ELSE IF ret.t = "dict" THEN
        \* each pair in turn: the key, the value, then the insertion
        LET steps == [i \in 1..Len(ret.items) |->
                        LET k == _str(ret.items[i][1])
                            v == _handle_return_value(ret.items[i][2])
                        IN  IF IsExc(k) THEN <<k, k>>
                            ELSE IF IsExc(v) THEN <<v, v>>
                            ELSE IF k.t = "binary" THEN <<Unhashable, Unhashable>>
                            ELSE <<k, v>>]
            failed == FirstExc([i \in 1..Len(steps) |-> steps[i][1]])
        IN  IF IsExc(failed) THEN failed ELSE DictOf(steps, <<>>)
    ELSE IF ret.t = "list" THEN
        LET items == [i \in 1..Len(ret.items) |-> _handle_return_value(ret.items[i])]
            failed == FirstExc(items)
        IN  IF ~IsExc(failed) THEN PyList(items)
            ELSE IF failed.cls = "TypeError" THEN _str(ret)
            ELSE failed
    \* iterating anything else raises TypeError
    ELSE _str(ret)

\* A raised exception with the attributes the encoder reads, and whether its
\* traceback has frames below run_keyword's own
Raised(cls, msg, suppress, continue, exit, frames) ==
    [cls |-> cls, msg |-> msg, ROBOT_SUPPRESS_NAME |-> suppress,
     ROBOT_CONTINUE_ON_FAILURE |-> continue, ROBOT_EXIT_ON_FAILURE |-> exit,
     frames |-> frames]

\* sys.exc_info() of an exception the encoder itself raised
ExcInfo(e) == Raised(e.cls, e.s, FALSE, FALSE, FALSE, FALSE)

\* KeywordResult.__init__: the outcome and no exception in flight
KeywordResult == [data |-> [status |-> "FAIL"], raised |-> PyNone]

_generic_exceptions == {"AssertionError", "RuntimeError", "Exception"}

\* _add without its test of the default
_add_always(data, key, val, default) == (key :> val) @@ data

\* value != default: in Python 2 a str and a unicode with the same characters
\* are equal
NotEqual(val, default) ==
    IF ~PY3 /\ val \in {PyText(<<>>), PyBytes(<<>>)} /\ default = PyText(<<>>)
    THEN FALSE
    ELSE val # default

_add(data, key, val, default) ==
    IF NotEqual(val, default) THEN (key :> val) @@ data ELSE data

\* unicode(value) of an exception is its message (a text); the result is the
\* message, a Binary, or the ValueError _handle_binary_result raises
_get_message_from_exception(exc) == _handle_binary_result(PyText(exc.msg))

\* _get_error_message without the test of ROBOT_SUPPRESS_NAME
_get_error_message_named(exc) ==
    LET name == exc.cls
        message == _get_message_from_exception(exc)
    IN  IF IsExc(message) THEN message
        ELSE IF message.t = "text" /\ message.s = <<>> THEN PyText(<<name>>)
        ELSE IF exc.cls \in _generic_exceptions THEN message
        ELSE PyText(<<name, ": ">> \o message.s)

_get_error_message(exc) ==
    LET name == exc.cls
        message == _get_message_from_exception(exc)
    IN  IF IsExc(message) THEN message
        \* "not message": a Binary is always true
        ELSE IF message.t = "text" /\ message.s = <<>> THEN PyText(<<name>>)
        ELSE IF exc.cls \in _generic_exceptions \/ exc.ROBOT_SUPPRESS_NAME
        THEN message
        \* '%s: %s' % (name, message): str(Binary) gives its data back
        ELSE PyText(<<name, ": ">> \o message.s)

_get_error_traceback(exc) ==
    PyText(<<"Traceback (most recent call last):", "LF">>
             \o (IF exc.frames THEN <<"  File ...", "LF">> ELSE <<>>))

\* set_error(exc_type, exc_value, exc_tb): with_tb says exc_tb was passed
set_error(result, exc, with_tb) ==
    LET error == _get_error_message(exc)
        d1 == _add(result.data, "error", error, PyText(<<>>))
        d2 == IF with_tb
              THEN _add(d1, "traceback", _get_error_traceback(exc), PyText(<<>>))
              ELSE d1
        d3 == _add(d2, "continuable", PyBool(exc.ROBOT_CONTINUE_ON_FAILURE),
                   PyBool(FALSE))
        d4 == _add(d3, "fatal", PyBool(exc.ROBOT_EXIT_ON_FAILURE), PyBool(FALSE))
    IN  IF IsExc(error) THEN [data |-> result.data, raised |-> error]
        ELSE [data |-> d4, raised |-> PyNone]

set_return(result, val) ==
    LET ret == _handle_return_value(val)
    IN  IF IsExc(ret) THEN [data |-> result.data, raised |-> ret]
        ELSE [data |-> _add(result.data, "return", ret, PyText(<<>>)),
              raised |-> PyNone]

set_status(result, status) ==
    [result EXCEPT !.data = [result.data EXCEPT !.status = status]]

\* an exception raised here, in run_keyword's finally block, replaces the one
\* in flight
set_output(result, output) ==
    IF output = <<>> THEN result
    ELSE LET out == _handle_binary_result(PyText(output))
         IN  IF IsExc(out) THEN [result EXCEPT !.raised = out]
             ELSE [result EXCEPT !.data = ("output" :> out) @@ result.data]

------------------------------------------------------------------------------
(* KeywordRunner: output capture and invocation.  The arguments of a call   *)
(* (_handle_binary_args) act only through what the keyword then does, which *)
(* a Behaviour gives.  Exception messages are texts, so the UnicodeError     *)
(* fallback of _get_message_from_exception is not taken, and on IronPython   *)
(* (sys.platform == 'cli') str(result) leaves the bytes of a Binary as they  *)
(* are.                                                                      *)

LogLevels == {"*TRACE*", "*DEBUG*", "*INFO*", "*HTML*", "*WARN*", "*ERROR*"}

\* the merged text of the two captured buffers
_restore_std_streams(stdout, stderr) ==
    IF stdout # <<>> /\ stderr # <<>>
    THEN (IF stdout[Len(stdout)] # "LF" THEN Append(stdout, "LF") ELSE stdout)
           \o (IF stderr[1] \notin LogLevels THEN <<"*INFO*", " ">> \o stderr
               ELSE stderr)
    ELSE stdout \o stderr

\* What calling the keyword does: it returns val or raises exc, having written
\* stdout and stderr to the captured streams
Behaviour(kind, val, exc, stdout, stderr) ==
    [kind |-> kind, val |-> val, exc |-> exc, stdout |-> stdout, stderr |-> stderr]

NoExc == Raised("", <<>>, FALSE, FALSE, FALSE, FALSE)

Returns(val, stdout, stderr) == Behaviour("return", val, NoExc, stdout, stderr)

Raises(exc, stdout, stderr) == Behaviour("raise", PyNone, exc, stdout, stderr)

\* self._keyword(*args, **kwargs) when self._keyword is None
CallNone ==
    Raises(Raised("TypeError", <<"'NoneType' object is not callable">>,
                  FALSE, FALSE, FALSE, FALSE), <<>>, <<>>)

\* run_keyword with set_status('PASS') in the try block, before set_return
run_keyword_pass_first(call) ==
    LET result == KeywordResult
        tried == IF call.kind = "raise" THEN set_error(result, call.exc, TRUE)
                 ELSE LET passed == set_status(result, "PASS")
                          returned == set_return(passed, call.val)
                      IN  IF IsExc(returned.raised)
                          THEN set_error(passed, ExcInfo(returned.raised), FALSE)
                          ELSE returned
    IN  set_output(tried, _restore_std_streams(call.stdout, call.stderr))

\* KeywordRunner.run_keyword, given what the call of the keyword does: the
\* outcome built, and the exception that leaves run_keyword (PyNone: none)
run_keyword(call) ==
    LET result == KeywordResult
        tried == IF call.kind = "raise" THEN set_error(result, call.exc, TRUE)
                 ELSE LET returned == set_return(result, call.val)
                      IN  IF IsExc(returned.raised)
                          THEN set_error(result, ExcInfo(returned.raised), FALSE)
                          ELSE set_status(returned, "PASS")
    IN  set_output(tried, _restore_std_streams(call.stdout, call.stderr))

------------------------------------------------------------------------------
(* RemoteLibrary: the keyword catalog over the hosted library *)

\* dir(library), in its (sorted) order
LibraryAttributes ==
    << [name |-> "_helper", function |-> TRUE],
       [name |-> "kw_a", function |-> TRUE],
       [name |-> "kw_b", function |-> TRUE],
       [name |-> "version", function |-> FALSE] >>

\* the names the hosted library's own get_keyword_names lists
OwnNames == <<"kw_a", "kw_b">>

LibKinds == {"scan", "own_list", "fresh_list", "tuple"}

Private(name) == name \in {"_helper"}

_is_function_or_method(name) ==
    \E i \in 1..Len(LibraryAttributes) :
        LibraryAttributes[i].name = name /\ LibraryAttributes[i].function

RECURSIVE ScanNames(_)
ScanNames(attrs) ==
    IF attrs = <<>> THEN <<>>
    ELSE (IF ~Private(Head(attrs).name) /\ _is_function_or_method(Head(attrs).name)
          THEN <<Head(attrs).name>> ELSE <<>>) \o ScanNames(Tail(attrs))

\* RemoteLibrary.get_keyword_names: the names given back, the hosted library's
\* list afterwards, and the exception raised. A library of kind
\*   "scan"       has no get_keyword_names of its own
\*   "own_list"   returns the list object it keeps (kwlist)
\*   "fresh_list" returns a new list on every call
\*   "tuple"      returns a tuple, which has no append
get_keyword_names ==
    LET names == IF lib_kind = "scan" THEN ScanNames(LibraryAttributes) ELSE kwlist
        appended == IF stop_registered THEN Append(names, "stop_remote_server")
                    ELSE names
    IN  IF lib_kind = "tuple" /\ stop_registered
        THEN [names |-> <<>>, kwlist |-> kwlist,
              raised |-> Exc("AttributeError",
                             <<"'tuple' object has no attribute 'append'">>)]
        ELSE [names |-> appended,
              kwlist |-> IF lib_kind = "own_list" THEN appended ELSE kwlist,
              raised |-> PyNone]

\* _get_keyword without the test that the attribute is a function or method
_get_keyword_unchecked(name) ==
    IF name = "stop_remote_server"
    THEN (IF stop_registered THEN "stop" ELSE "none")
    ELSE "function"

\* RemoteLibrary._get_keyword: "stop", "function" or "none" (None)
_get_keyword(name) ==
    IF name = "stop_remote_server"
    THEN (IF stop_registered THEN "stop" ELSE "none")
    ELSE IF ~_is_function_or_method(name) THEN "none"
    ELSE "function"

------------------------------------------------------------------------------
(* RobotRemoteServer *)

\* stop_remote_server without the test of _allow_stop
stop_remote_server_always == TRUE

\* RobotRemoteServer.stop_remote_server: the flag afterwards, which is also
\* what it returns
stop_remote_server == IF allow_stop THEN TRUE ELSE shutdown

\* what _log writes to sys.stdout
StopLog ==
    IF allow_stop
    THEN <<"Robot Framework remote server at 127.0.0.1:8270 stopping.", "LF">>
    ELSE <<"*WARN*", " ",
           "Robot Framework remote server at 127.0.0.1:8270 does not allow stopping.",
           "LF">>

\* the bound method stop_remote_server called with nargs positional arguments
CallStop(nargs) ==
    IF nargs = 0 THEN Returns(PyBool(stop_remote_server), StopLog, <<>>)
    ELSE Raises(Raised("TypeError",
                       <<"stop_remote_server() takes 1 positional argument but 2 were given">>,
                       FALSE, FALSE, FALSE, FALSE), <<>>, <<>>)

Reply(op, name, call, result, names, ret) ==
    [op |-> op, name |-> name, call |-> call, data |-> result.data,
     raised |-> result.raised, names |-> names, ret |-> ret]

NoReply ==
    Reply("none", "", Returns(PyNone, <<>>, <<>>),
          [data |-> [status |-> "NONE"], raised |-> PyNone], <<>>, FALSE)

\* serve_forever: the test of the while loop
LoopCheck ==
    /\ pc = "loop"
    /\ pc' = IF shutdown THEN "exited" ELSE "wait"
    /\ reply' = IF shutdown THEN reply ELSE NoReply
    /\ UNCHANGED <<PY3, allow_stop, shutdown, stop_registered, sys_stdout,
                   sys_stderr, lib_kind, kwlist, value>>

\* handle_request returns after the 0.5 s timeout with no request
Timeout ==
    /\ pc = "wait"
    /\ pc' = "loop"
    /\ UNCHANGED <<PY3, allow_stop, shutdown, stop_registered, sys_stdout,
                   sys_stderr, lib_kind, kwlist, value, reply>>

\* stop_with_signal, on SIGINT, SIGTERM or SIGHUP; a waiting handle_request
\* goes on waiting or is interrupted (EINTR)
Signal ==
    /\ pc # "exited"
    /\ allow_stop' = TRUE
    /\ shutdown' = TRUE
    /\ pc' \in {pc} \cup (IF pc = "wait" THEN {"loop"} ELSE {})
    /\ UNCHANGED <<PY3, stop_registered, sys_stdout, sys_stderr, lib_kind,
                   kwlist, value, reply>>

\* a get_keyword_names request
HandleGetKeywordNames ==
    /\ pc = "wait"
    /\ Len(kwlist) < MaxNames
    /\ LET got == get_keyword_names
       IN  /\ kwlist' = got.kwlist
           /\ reply' = Reply("get_keyword_names", "", Returns(PyNone, <<>>, <<>>),
                             [data |-> [status |-> "NONE"], raised |-> got.raised],
                             got.names, FALSE)
    /\ pc' = "loop"
    /\ UNCHANGED <<PY3, allow_stop, shutdown, stop_registered, sys_stdout,
                   sys_stderr, lib_kind, value>>

\* a stop_remote_server request
HandleStopRemoteServer ==
    /\ pc = "wait"
    /\ shutdown' = stop_remote_server
    /\ reply' = Reply("stop_remote_server", "", Returns(PyNone, <<>>, <<>>),
                      [data |-> [status |-> "NONE"], raised |-> PyNone],
                      <<>>, stop_remote_server)
    /\ pc' = "loop"
    /\ UNCHANGED <<PY3, allow_stop, stop_registered, sys_stdout, sys_stderr,
                   lib_kind, kwlist, value>>

\* RemoteLibrary.run_keyword with KeywordRunner.run_keyword: _get_keyword, then
\* _intercept_std_streams, the call, the encoding and _restore_std_streams,
\* which leaves sys.stdout and sys.stderr at sys.__stdout__ and sys.__stderr__
RunKeyword(name, call) ==
    /\ pc = "wait"
    /\ reply' = Reply("run_keyword", name, call, run_keyword(call), <<>>, FALSE)
    /\ sys_stdout' = "__stdout__"
    /\ sys_stderr' = "__stderr__"
    /\ pc' = "loop"

\* a run_keyword request for a function of the hosted library that does `call`
RunLibraryKeyword(name, call) ==
    /\ _get_keyword(name) = "function"
    /\ RunKeyword(name, call)
    /\ UNCHANGED <<PY3, allow_stop, shutdown, stop_registered, lib_kind, kwlist,
                   value>>

\* a run_keyword request for a name that does not resolve
RunUnresolvedKeyword(name) ==
    /\ _get_keyword(name) = "none"
    /\ RunKeyword(name, CallNone)
    /\ UNCHANGED <<PY3, allow_stop, shutdown, stop_registered, lib_kind, kwlist,
                   value>>

\* a run_keyword request for stop_remote_server
RunStopKeyword(nargs) ==
    /\ _get_keyword("stop_remote_server") = "stop"
    /\ RunKeyword("stop_remote_server", CallStop(nargs))
    /\ shutdown' = IF nargs = 0 THEN stop_remote_server ELSE shutdown
    /\ UNCHANGED <<PY3, allow_stop, stop_registered, lib_kind, kwlist, value>>

------------------------------------------------------------------------------
(* Inputs *)

Leaves ==
    {PyNone, PyBool(TRUE), PyBool(FALSE), PyInt(0), PyInt(1), PyFloat(1)}
      \cup {PyText(s) : s \in Strings(MaxStrLen)}
      \cup {PyBytes(s) : s \in Strings(1)}
      \cup {PyObj(s) : s \in Strings(1)}

\* the keys of the dicts a keyword returns
Keys == {PyInt(1), PyText(<<"a">>), PyText(<<"NUL">>), PyBytes(<<"a">>)}

\* the items of its two-item lists and two-pair dicts
Items == {PyNone, PyInt(1), PyText(<<"NUL">>), PyObj(<<"a">>)}

Lists(S) ==
    {PyList(<<>>)} \cup {PyList(<<v>>) : v \in S}
      \cup {PyList(<<v, w>>) : v \in Items, w \in Items}

Dicts(S) ==
    {PyDict(<<>>)} \cup {PyDict(<< <<k, v>> >>) : k \in Keys, v \in S}
      \cup {PyDict(<< <<k, v>> >>) :
              k \in {PyNone, PyText(<<"NUL", "E9">>)}, v \in Items}
      \cup {PyDict(<< <<PyInt(1), v>>, <<PyText(<<"1">>), PyNone>> >>) : v \in Items}

RECURSIVE Values(_)
Values(depth) ==
    IF depth = 0 THEN Leaves
    ELSE LET S == Values(depth - 1) IN Leaves \cup Lists(S) \cup Dicts(S)

\* what a keyword writes to stdout and to stderr
StdoutTexts == {<<>>, <<"a">>, <<"a", "LF">>, <<"NUL">>}
StderrTexts == {<<>>, <<"a">>, <<"*WARN*", "a">>, <<"E9">>}

Messages == UNION {[1..k -> {"a", "NUL", "E9"}] : k \in 0..MaxStrLen}

\* the exceptions a keyword raises; MyError is a class of the hosted library
Exceptions ==
    {Raised(cls, msg, suppress, FALSE, FALSE, TRUE) :
        cls \in {"Exception", "AssertionError", "RuntimeError", "MyError"},
        msg \in Messages, suppress \in BOOLEAN}
      \cup {Raised("MyError", msg, FALSE, continue, ~continue, TRUE) :
              msg \in Messages, continue \in BOOLEAN}

\* what the keywords of the outcome runs do
OutcomeValues == Leaves \cup Lists(Items) \cup Dicts(Items)

OutcomeCalls ==
    {Returns(val, out, err) :
        val \in OutcomeValues, out \in StdoutTexts, err \in StderrTexts}
      \cup {Raises(exc, out, err) :
              exc \in Exceptions, out \in StdoutTexts, err \in StderrTexts}

\* what the keywords of the server runs do
ServerCalls ==
    {Returns(val, out, err) :
        val \in {PyNone, PyInt(1), PyText(<<"a">>), PyText(<<"NUL", "E9">>)},
        out \in {<<>>, <<"a">>, <<"NUL">>}, err \in {<<>>, <<"E9">>}}
      \cup {Raises(Raised(cls, msg, FALSE, FALSE, FALSE, TRUE), out, <<>>) :
              cls \in {"Exception", "MyError"},
              msg \in {<<>>, <<"a">>, <<"NUL", "E9">>},
              out \in {<<>>, <<"a">>}}

RequestNames == {"kw_a", "_helper", "version", "missing", "stop_remote_server"}

------------------------------------------------------------------------------
(* The server: the serve_forever loop over every kind of request *)

Init ==
    /\ PY3 \in BOOLEAN
    /\ allow_stop \in BOOLEAN
    /\ shutdown = FALSE
    \* RobotRemoteServer registers its stop_remote_server; a RemoteLibrary made
    \* without one has None
    /\ stop_registered \in BOOLEAN
    /\ pc = "loop"
    \* the streams of the interpreter, or streams the hosting program installed
    /\ sys_stdout \in {"__stdout__", "host_stdout"}
    /\ sys_stderr \in {"__stderr__", "host_stderr"}
    /\ lib_kind \in LibKinds
    /\ kwlist = OwnNames
    /\ value = PyNone
    /\ reply = NoReply

ServeLibraryKeyword ==
    \E name \in RequestNames, call \in ServerCalls : RunLibraryKeyword(name, call)

ServeUnresolvedKeyword ==
    \E name \in RequestNames : RunUnresolvedKeyword(name)

ServeStopKeyword ==
    \E nargs \in 0..1 : RunStopKeyword(nargs)

Next ==
    \/ LoopCheck
    \/ Timeout
    \/ Signal
    \/ HandleGetKeywordNames
    \/ HandleStopRemoteServer
    \/ ServeLibraryKeyword
    \/ ServeUnresolvedKeyword
    \/ ServeStopKeyword

Spec == Init /\ [][Next]_vars

------------------------------------------------------------------------------
(* Outcome runs: run_keyword requests over what a keyword can do *)

InitOutcome ==
    /\ PY3 \in BOOLEAN
    /\ allow_stop = TRUE
    /\ shutdown = FALSE
    /\ stop_registered = TRUE
    /\ pc = "loop"
    /\ sys_stdout = "__stdout__"
    /\ sys_stderr = "__stderr__"
    /\ lib_kind = "scan"
    /\ kwlist = OwnNames
    /\ value = PyNone
    /\ reply = NoReply

OutcomeLibraryKeyword ==
    \E call \in OutcomeCalls : RunLibraryKeyword("kw_a", call)

NextOutcome ==
    \/ LoopCheck
    \/ OutcomeLibraryKeyword

SpecOutcome == InitOutcome /\ [][NextOutcome]_vars

------------------------------------------------------------------------------
(* Encoder runs: set_return over nested return values *)

InitEncoder ==
    /\ PY3 \in BOOLEAN
    /\ allow_stop = TRUE
    /\ shutdown = FALSE
    /\ stop_registered = TRUE
    /\ pc = "wait"
    /\ sys_stdout = "__stdout__"
    /\ sys_stderr = "__stderr__"
    /\ lib_kind = "scan"
    /\ kwlist = OwnNames
    /\ value \in Values(MaxDepth)
    /\ reply = NoReply

EncodeReturn ==
    /\ reply.op = "none"
    /\ reply' = Reply("set_return", "", Returns(value, <<>>, <<>>),
                      set_return(KeywordResult, value), <<>>, FALSE)
    /\ UNCHANGED <<PY3, allow_stop, shutdown, stop_registered, pc, sys_stdout,
                   sys_stderr, lib_kind, kwlist, value>>

NextEncoder == EncodeReturn

SpecEncoder == InitEncoder /\ [][NextEncoder]_vars

------------------------------------------------------------------------------
(* Properties *)

\* the last request was a run_keyword request
Ran == reply.op = "run_keyword"

Has(key) == key \in DOMAIN reply.data

\* the keyword returned a value and the value was normalized without error
ReturnedAndNormalized ==
    reply.call.kind = "return" /\ ~IsExc(_handle_return_value(reply.call.val))

\* the keyword returned a value whose normalization raised
NormalizationFailed ==
    reply.call.kind = "return" /\ IsExc(_handle_return_value(reply.call.val))

Captured == _restore_std_streams(reply.call.stdout, reply.call.stderr)

\* C1: every failing invocation (the callable raises, or its return value
\* cannot be normalized) gives back an outcome with status FAIL and an
\* `error` field, and no exception leaves run_keyword, whatever the error
\* message and the captured output are.
C1_FailureGivesOutcome ==
    (Ran /\ (reply.call.kind = "raise" \/ NormalizationFailed))
        => /\ reply.raised = PyNone
           /\ reply.data.status = "FAIL"
           /\ Has("error")

\* C2: the status of the outcome run_keyword builds is PASS if and only if
\* the callable returned normally and its value was normalized without
\* error, and FAIL otherwise; when the normalization of a returned value
\* fails, the outcome is FAIL, its `error` is that of the normalization
\* error and it has no `traceback`.
C2_PassIffNormalized ==
    Ran =>
        /\ reply.data.status \in {"PASS", "FAIL"}
        /\ reply.data.status = "PASS" <=> ReturnedAndNormalized
        /\ NormalizationFailed =>
              LET failure == _handle_return_value(reply.call.val)
              IN  /\ reply.data.status = "FAIL"
                  /\ Has("error")
                  /\ reply.data["error"]
                        = PyText(<<failure.cls, ": ">> \o failure.s)
                  /\ failure.cls \in {"ValueError", "TypeError"}
                  /\ ~Has("traceback")

C2_Witness ==
    /\ Ran
    /\ NormalizationFailed
    /\ reply.raised = PyNone
    /\ reply.data.status = "FAIL"

\* C3: a run_keyword call leaves sys.stdout and sys.stderr naming the
\* targets they named before the call, and never the capture buffers.
C3_StreamsAsBefore ==
    [][(pc = "wait" /\ reply'.op = "run_keyword")
          => /\ sys_stdout' = sys_stdout
             /\ sys_stderr' = sys_stderr
             /\ sys_stdout' # "StringIO"
             /\ sys_stderr' # "StringIO"]_vars

\* the name does not resolve: no such attribute, an attribute that is no
\* function, or the stop name with no stop capability registered
Unresolved(name) ==
    \/ name \in {"missing", "version"}
    \/ name = "stop_remote_server" /\ ~stop_registered

\* C4: a run_keyword request for a name that does not resolve gives back an
\* outcome with status FAIL, the error text and the traceback header of the
\* failed call; no exception leaves run_keyword, and the standard streams
\* are the interpreter's again.
C4_UnresolvedFails ==
    (Ran /\ Unresolved(reply.name))
        => /\ reply.raised = PyNone
           /\ reply.data.status = "FAIL"
           /\ Has("error")
           /\ reply.data["error"]
                 = PyText(<<"TypeError", ": ", "'NoneType' object is not callable">>)
           /\ Has("traceback")
           /\ ~Has("return")
           /\ ~Has("output")
           /\ sys_stdout = "__stdout__"
           /\ sys_stderr = "__stderr__"

C4_Witness ==
    /\ Ran
    /\ reply.name = "stop_remote_server"
    /\ ~stop_registered
    /\ reply.data.status = "FAIL"
    /\ reply.raised = PyNone

\* C5 as stated: a PASS outcome given back has a `return` key, holding the
\* normalized value, exactly when the returned value is not None, and an
\* `output` key exactly when the captured output is not empty.
C5_ReturnUnlessNone ==
    (Ran /\ reply.raised = PyNone /\ reply.data.status = "PASS")
        => /\ Has("return") <=> reply.call.val # PyNone
           /\ Has("return")
                 => reply.data["return"] = _handle_return_value(reply.call.val)
           /\ Has("output") <=> Captured # <<>>

\* the empty text, which is the default of `return`
EmptyText(v) == v.t \in {"text", "bytes"} /\ v.s = <<>>

\* C5 as amended: a PASS outcome given back has a `return` key, holding the
\* normalized value, exactly when the normalized value is not the empty
\* text; it has none when the returned value is None, an empty string or an
\* object whose text is empty; and it has an `output` key exactly when the
\* captured output is not empty.
C5_ReturnUnlessEmptyText ==
    (Ran /\ reply.raised = PyNone /\ reply.data.status = "PASS")
        => /\ Has("return") <=> ~EmptyText(_handle_return_value(reply.call.val))
           /\ Has("return")
                 => reply.data["return"] = _handle_return_value(reply.call.val)
           /\ reply.call.val \in {PyNone, PyText(<<>>), PyObj(<<>>)} => ~Has("return")
           /\ Has("output") <=> Captured # <<>>

C5_Witness ==
    /\ Ran
    /\ reply.raised = PyNone
    /\ reply.data.status = "PASS"
    /\ reply.call.val = PyText(<<>>)
    /\ ~Has("return")
    /\ Has("output")

\* a text of the transport: unicode, or the str of Python 2
IsText(v) == v.t = "text" \/ (~PY3 /\ v.t = "bytes")

RECURSIVE IsTransportValue(_)
IsTransportValue(v) ==
    \/ IsText(v)
    \/ v.t \in {"int", "float", "bool", "binary"}
    \/ v.t = "list" /\ \A i \in 1..Len(v.items) : IsTransportValue(v.items[i])
    \/ v.t = "dict" /\ \A i \in 1..Len(v.items) :
           IsText(v.items[i][1]) /\ IsTransportValue(v.items[i][2])

\* C6: every value set_return puts into the outcome is, at every depth, a
\* text, an integer, a float, a boolean, a Binary, a list or a dict, and
\* every key of every dict in it is a text.
C6_TransportValuesOnly ==
    (reply.op = "set_return" /\ reply.raised = PyNone /\ Has("return"))
        => IsTransportValue(reply.data["return"])

C6_Witness ==
    /\ reply.op = "set_return"
    /\ reply.raised = PyNone
    /\ value = PyList(<<PyDict(<< <<PyInt(1), PyObj(<<"a">>)>> >>)>>)
    /\ Has("return")
    /\ reply.data["return"]
          = PyList(<<PyDict(<< <<PyText(<<"1">>), PyText(<<"a">>)>> >>)>>)

\* C7: the `error` of the outcome of a keyword that raised is the name of
\* the error's type when its message is empty, the message alone (as text,
\* or as a Binary of it) when the type is AssertionError, RuntimeError or
\* Exception or the error has ROBOT_SUPPRESS_NAME, and `TypeName: message`
\* otherwise.
C7_ErrorText ==
    (Ran /\ reply.call.kind = "raise" /\ Has("error"))
        => LET exc == reply.call.exc
               error == reply.data["error"]
           IN  IF exc.msg = <<>> THEN error = PyText(<<exc.cls>>)
               ELSE IF \/ exc.cls \in {"AssertionError", "RuntimeError", "Exception"}
                       \/ exc.ROBOT_SUPPRESS_NAME
               THEN error.t \in {"text", "binary"} /\ error.s = exc.msg
               ELSE error = PyText(<<exc.cls, ": ">> \o exc.msg)

C7_Witness ==
    /\ Ran
    /\ reply.raised = PyNone
    /\ reply.call.kind = "raise"
    /\ reply.call.exc.cls = "MyError"
    /\ ~reply.call.exc.ROBOT_SUPPRESS_NAME
    /\ reply.data.status = "FAIL"
    /\ Has("error")
    /\ reply.data["error"] = PyText(<<"MyError", ": ", "a">>)

\* the keyword returned a string with a control character other than tab,
\* newline and carriage return
ReturnedControlString ==
    /\ Ran
    /\ reply.call.kind = "return"
    /\ reply.call.val.t \in {"text", "bytes"}
    /\ \E i \in 1..Len(reply.call.val.s) : reply.call.val.s[i] = "NUL"

\* C8 as stated: for every returned string with such a control character the
\* outcome is PASS and `return` is a Binary of exactly the string's bytes.
C8_ControlStringIsBinary ==
    ReturnedControlString
        => /\ reply.data.status = "PASS"
           /\ Has("return")
           /\ reply.data["return"] = Binary(reply.call.val.s)

\* C8 as amended: for every returned byte string with such a control
\* character, and every returned text with one whose characters are all
\* ASCII, the outcome is PASS and `return` is a Binary of exactly the
\* string's bytes; a returned text with such a control character and a
\* character above 0x7F gives FAIL with the ValueError of the encoder.
C8_AsciiControlStringIsBinary ==
    ReturnedControlString
        => LET val == reply.call.val
               ascii == \A i \in 1..Len(val.s) : val.s[i] # "E9"
           IN  IF val.t = "bytes" \/ ascii
               THEN /\ reply.data.status = "PASS"
                    /\ Has("return")
                    /\ reply.data["return"] = Binary(val.s)
               ELSE /\ reply.data.status = "FAIL"
                    /\ ~Has("return")
                    /\ Has("error")
                    /\ reply.data["error"].s[1] = "ValueError"

C8_Witness ==
    /\ ReturnedControlString
    /\ reply.raised = PyNone
    /\ reply.call.val = PyText(<<"NUL", "a">>)
    /\ reply.data.status = "PASS"
    /\ Has("return")
    /\ reply.data["return"] = Binary(<<"NUL", "a">>)

\* C9: a call of the stop capability, as its own request or through
\* run_keyword, returns true and sets the shutdown flag when stopping is
\* allowed, and returns false and leaves the flag unset when it is not; the
\* flag is never cleared; the loop exits at its next test once the flag is
\* set, goes on to wait for a request while it is not, and handles nothing
\* after it has exited.
C9_StopReturnsWhetherStopping ==
    [][/\ (pc = "wait" /\ reply'.op = "stop_remote_server")
             => /\ reply'.ret = allow_stop
                /\ shutdown' = allow_stop
                /\ pc' = "loop"
       /\ (pc = "wait" /\ reply'.op = "run_keyword"
              /\ reply'.name = "stop_remote_server" /\ stop_registered
              /\ reply'.call.kind = "return")
             => /\ reply'.raised = PyNone
                /\ reply'.data.status = "PASS"
                /\ "return" \in DOMAIN reply'.data
                /\ reply'.data["return"] = PyBool(allow_stop)
                /\ shutdown' = allow_stop
                /\ pc' = "loop"
       /\ shutdown => shutdown'
       /\ (pc = "loop" /\ shutdown) => pc' \in {"loop", "exited"}
       /\ (pc = "loop" /\ ~shutdown') => pc' \in {"loop", "wait"}
       /\ pc = "exited" => (pc' = "exited" /\ reply' = reply)]_vars

C9_Witness ==
    /\ pc = "exited"
    /\ Ran
    /\ reply.name = "stop_remote_server"
    /\ reply.data.status = "PASS"
    /\ Has("return")
    /\ reply.data["return"] = PyBool(TRUE)

\* C10: a get_keyword_names request gives back the names of the hosted
\* library, with the stop name once when a stop capability is registered,
\* raises nothing and leaves the list of the hosted library as it was.
C10_EnumerationIsStateless ==
    [][(pc = "wait" /\ reply'.op = "get_keyword_names")
          => /\ kwlist' = kwlist
             /\ reply'.raised = PyNone
             /\ reply'.names
                   = <<"kw_a", "kw_b">>
                       \o (IF stop_registered THEN <<"stop_remote_server">> ELSE <<>>)]_vars

====
